---- MODULE Spec2Model ----
(***************************************************************************)
(* Payroll payment orchestration of the university HRIS                    *)
(* (src/src/lib/payroll.ts, src/src/lib/flutterwave.ts) and the role gates *)
(* of the finance routes and pages.                                        *)
(*                                                                         *)
(* processPayrollPayment is modelled at the granularity of its await       *)
(* points: one action per awaited call, each action running the code up to *)
(* the next await.  verifyPayrollPayment and reconcilePayroll are one      *)
(* action each.  Every database call and every provider call may throw.    *)
(***************************************************************************)
EXTENDS Integers, Sequences, FiniteSets, TLC

\* ------------------------------------------------------------------ bounds
MaxBulk == 2      \* longest payment list handed to processBulkPayroll
MaxCalls == 2     \* processPayrollPayment calls in one behaviour
MaxNow == 2       \* last instant of the clock
MaxReq == 2       \* web requests in one behaviour

\* Instants per calendar month of the clock (a month has more than one instant).
DaysPerMonth == 2

\* ------------------------------------------------------------- JS values
\* undefined / null / '' of a string-valued field (all falsy)
None == "none"
\* undefined reference or transaction id
NoRef == <<"NONE", 0>>
\* the IEEE NaN; no arithmetic is ever done on it
NaN == 999999

\* typeof a === 'number' is true of every amount that reaches the checks, NaN
\* included; a <= 0 is false when a is NaN
LeqZero(a) == a # NaN /\ a <= 0

\* JS a || b on references
OrRef(a, b) == IF a # NoRef THEN a ELSE b

Slots == 1..MaxBulk
Dates == 0..MaxNow
\* the month argument of a payroll run: a date inside the first month and
\* the first instant of the next
PayMonths == {DaysPerMonth - 1, DaysPerMonth}

\* new Date(y, m, 1) and new Date(y, m + 1, 1) of a date
MonthStart(d) == (d \div DaysPerMonth) * DaysPerMonth
NextMonthStart(d) == MonthStart(d) + DaysPerMonth
InMonth(x, d) == x >= MonthStart(d) /\ x < NextMonthStart(d)

\* ------------------------------------------------------------ employees
NoBank == [code |-> None, name |-> None]
EmployeeTable ==
  [e1 |-> [id |-> "e1", userId |-> "u1", salary |-> 9, bank |-> [code |-> "B01", name |-> "KCB"]],
   e2 |-> [id |-> "e2", userId |-> "u2", salary |-> 9, bank |-> NoBank]]
NoEmployee == [id |-> None, userId |-> None, salary |-> 0, bank |-> NoBank]

\* prisma.employee.findUnique({ where: { id } })
FindEmployeeRow(id) == IF id \in DOMAIN EmployeeTable THEN EmployeeTable[id] ELSE NoEmployee

\* ------------------------------------------------------ raw bulk amounts
\* An amount as the caller hands it to processBulkPayroll: a number or a
\* string of characters.
Digits == <<"0", "1", "2", "3", "4", "5", "6", "7", "8", "9">>
DigitVal(ch) == CHOOSE k \in 0..9 : Digits[k + 1] = ch
IsDigit(ch) == \E k \in 1..10 : Digits[k] = ch

RECURSIVE ParseDigits(_, _)
\* longest prefix of decimal digits of s, accumulated on acc
ParseDigits(s, acc) ==
  IF s = <<>> \/ ~IsDigit(Head(s)) THEN acc
  ELSE ParseDigits(Tail(s), acc * 10 + DigitVal(Head(s)))

\* parseFloat on the strings of the model (optional sign, digits, junk)
ParseFloat(s) ==
  IF s = <<>> THEN NaN
  ELSE IF Head(s) = "-"
    THEN IF Tail(s) = <<>> \/ ~IsDigit(Head(Tail(s))) THEN NaN ELSE 0 - ParseDigits(Tail(s), 0)
    ELSE IF ~IsDigit(Head(s)) THEN NaN ELSE ParseDigits(s, 0)

\* typeof amount === 'string' ? parseFloat(amount) : Number(amount)
ToAmount(raw) == IF raw[1] = "string" THEN ParseFloat(raw[2]) ELSE raw[2]

Num(n) == <<"number", n>>
Str(s) == <<"string", s>>

\* --------------------------------------------------------- the payments
Pay(e, a, bid, acc, ph, m) ==
  [employeeId |-> e, amount |-> a, bankId |-> bid, bankAccNo |-> acc, phone |-> ph, paymentMethod |-> m]

\* The payments callers hand in: every failure before the provider call and
\* both providers are represented.
RawPayments ==
  { Pay("e1", Num(5), None, "ACC", None, "bank"),
    Pay("e1", Str(<<"7">>), None, "ACC", "0712", "mpesa"),
    Pay("e2", Num(5), None, None, "0712", "mpesa"),
    Pay("e2", Num(5), None, "ACC", None, "bank"),
    Pay("e1", Num(5), None, None, None, "bank"),
    Pay("e1", Num(0), None, "ACC", None, "bank"),
    Pay("e2", Num(5), None, None, None, "mpesa"),
    Pay("e9", Num(5), "B02", "ACC", "0712", "bank"),
    Pay("e1", Num(5), None, "ACC", "0712", "cash") }

VARIABLES
  now,        \* the clock
  payslips,   \* table payslip, in insertion order
  payouts,    \* table payout, in insertion order
  txns,       \* the providers' transactions, in order of creation
  call,       \* the processPayrollPayment invocations, by slot
  bulk,       \* the processBulkPayroll invocation
  ncalls,     \* processPayrollPayment invocations so far
  banks,      \* table bank
  activities, \* table activity
  web         \* the web requests served, latest last

vars == <<now, payslips, payouts, txns, call, bulk, ncalls, banks, activities, web>>
dbVars == <<payslips, payouts>>
webVars == <<banks, activities, web>>

\* ------------------------------------------- processPayrollPayment state
NoPayment == [employeeId |-> None, amount |-> 0, bankId |-> None, bankAccNo |-> None,
              phone |-> None, paymentMethod |-> None]
NoError == <<None, None>>
NoResult == [success |-> FALSE, transactionId |-> NoRef, payoutRef |-> NoRef, error |-> NoError]

\* One invocation: its position, its arguments, its locals, its result, and
\* a tally of the provider calls and database writes it has made
\* (payoutRow: the place in table payout of the row it created, 0 when none;
\* notifWrites: the rows it has added to table notification, which nothing
\* in the payroll code reads; faults: the awaited calls that threw).
IdleCall ==
  [pc |-> "idle", payment |-> NoPayment, month |-> 0, employee |-> NoEmployee,
   transactionId |-> NoRef, payoutRef |-> NoRef, slip |-> 0, error |-> NoError,
   result |-> NoResult, bankCalls |-> 0, mpesaCalls |-> 0, provided |-> FALSE, txn |-> 0,
   slipWrites |-> 0, payoutWrites |-> 0, payoutRow |-> 0, notifWrites |-> <<>>,
   faults |-> {}]

\* processPayrollPayment(employeePayment, month, description) is entered
NewCall(p, m) == [IdleCall EXCEPT !.pc = "findEmployee", !.payment = p, !.month = m]

\* throw new Error(...) inside the try block
Throw(cr, kind) == [cr EXCEPT !.pc = "catch", !.error = <<kind, cr.payment.employeeId>>]

\* the awaited call at this site throws, inside the try block
Fails(cr, site, kind) == [Throw(cr, kind) EXCEPT !.faults = @ \cup {site}]

\* let bankCode = employeePayment.bankId;
\* if (employee?.bank) bankCode = employee.bank.code || employee.bank.name
BankCode(p, emp) ==
  IF emp.bank # NoBank
    THEN (IF emp.bank.code # None THEN emp.bank.code ELSE emp.bank.name)
    ELSE p.bankId

\* Dispatch with the final else branch lost: a method other than 'bank' is
\* paid by mobile money
DispatchNoElse(cr, emp) ==
  LET p == cr.payment IN
  IF emp.id = None THEN Throw(cr, "EmployeeNotFound")
  ELSE IF p.paymentMethod = "bank" THEN
    IF p.bankAccNo = None THEN Throw(cr, "BankAccountRequired")
    ELSE IF BankCode(p, emp) = None THEN Throw(cr, "BankCodeNotFound")
    ELSE IF LeqZero(p.amount) THEN Throw(cr, "InvalidAmount")
    ELSE [cr EXCEPT !.pc = "bankTransfer", !.employee = emp, !.bankCalls = @ + 1]
  ELSE IF p.phone = None THEN Throw(cr, "PhoneRequired")
  ELSE [cr EXCEPT !.pc = "mpesa", !.employee = emp, !.mpesaCalls = @ + 1]

\* The code between the employee lookup and the provider call.
Dispatch(cr, emp) ==
  LET p == cr.payment IN
  IF emp.id = None THEN Throw(cr, "EmployeeNotFound")
  ELSE IF p.paymentMethod = "bank" THEN
    IF p.bankAccNo = None THEN Throw(cr, "BankAccountRequired")
    ELSE IF BankCode(p, emp) = None THEN Throw(cr, "BankCodeNotFound")
    ELSE IF LeqZero(p.amount) THEN Throw(cr, "InvalidAmount")
    ELSE [cr EXCEPT !.pc = "bankTransfer", !.employee = emp, !.bankCalls = @ + 1]
  ELSE IF p.paymentMethod = "mpesa" THEN
    IF p.phone = None THEN Throw(cr, "PhoneRequired")
    ELSE [cr EXCEPT !.pc = "mpesa", !.employee = emp, !.mpesaCalls = @ + 1]
  ELSE Throw(cr, "InvalidMethod")

\* await prisma.employee.findUnique(...), then the code up to the next await
FindEmployee(c) ==
  /\ call[c].pc = "findEmployee"
  /\ \E ok \in BOOLEAN :
       call' = [call EXCEPT ![c] =
                  IF ok THEN Dispatch(@, FindEmployeeRow(@.payment.employeeId))
                  ELSE Fails(@, "lookup", "DbError")]
  /\ UNCHANGED <<now, dbVars, txns, bulk, ncalls, webVars>>

\* Math.round on the amounts of the model, which are whole numbers or NaN
Round(a) == a

\* What the transfer API answers: it throws, or returns a transfer with id
\* and reference, one with an id only, or an error body without data.
BankAnswers == {"throw", "full", "idOnly", "empty"}

NewTxn(kind, amount) == [kind |-> kind, amount |-> amount, state |-> "pending"]

\* responseData?.reference || responseData?.id || responseData?.flwRef
BankPayoutRef(answer, t) ==
  OrRef(IF answer = "full" THEN <<"REF", t>> ELSE NoRef,
        OrRef(IF answer \in {"full", "idOnly"} THEN <<"ID", t>> ELSE NoRef, NoRef))

\* processBankTransfer returns or throws, then the code up to the next await
BankTransferReturn(c) ==
  /\ call[c].pc = "bankTransfer"
  /\ \E configured \in BOOLEAN, answer \in BankAnswers :
       LET a == call[c].payment.amount
           t == Len(txns) + 1
       IN
       IF ~configured THEN
         /\ call' = [call EXCEPT ![c] = Fails(@, "provider", "NotConfigured")]
         /\ UNCHANGED txns
       ELSE IF LeqZero(a) \/ LeqZero(Round(a)) THEN
         /\ call' = [call EXCEPT ![c] = Fails(@, "provider", "InvalidAmount")]
         /\ UNCHANGED txns
       ELSE IF answer = "throw" THEN
         /\ call' = [call EXCEPT ![c] = Fails(@, "provider", "TransferFailed")]
         /\ UNCHANGED txns
       ELSE
         /\ txns' = IF answer = "empty" THEN txns ELSE Append(txns, NewTxn("bank", Round(a)))
         /\ call' = [call EXCEPT ![c] =
              [@ EXCEPT !.pc = "findPayslip", !.provided = TRUE,
                        !.txn = IF answer = "empty" THEN 0 ELSE t,
                        !.transactionId = IF answer = "empty" THEN NoRef ELSE <<"ID", t>>,
                        !.payoutRef = BankPayoutRef(answer, t)]]
  /\ UNCHANGED <<now, dbVars, bulk, ncalls, webVars>>

\* What the mobile-money API answers: it throws, or accepts the request with
\* a ConversationID, or returns an error body without one.
MpesaAnswers == {"throw", "accepted", "rejected"}

\* initiateMpesaPayment returns or throws, then the code up to the next await
MpesaReturn(c) ==
  /\ call[c].pc = "mpesa"
  /\ \E answer \in MpesaAnswers :
       LET t == Len(txns) + 1 IN
       IF answer = "throw" THEN
         /\ call' = [call EXCEPT ![c] = Fails(@, "provider", "MpesaFailed")]
         /\ UNCHANGED txns
       ELSE
         /\ txns' = IF answer = "accepted"
                      THEN Append(txns, NewTxn("mpesa", call[c].payment.amount)) ELSE txns
         /\ call' = [call EXCEPT ![c] =
              [@ EXCEPT !.pc = "findPayslip", !.provided = TRUE,
                        !.txn = IF answer = "accepted" THEN t ELSE 0,
                        !.transactionId = IF answer = "accepted" THEN <<"CONV", t>> ELSE NoRef,
                        !.payoutRef = IF answer = "accepted" THEN <<"CONV", t>> ELSE NoRef]]
  /\ UNCHANGED <<now, dbVars, bulk, ncalls, webVars>>

\* SlipsOf that matches the payslip's month against the date given, not
\* against the calendar month around it
SlipsOfThatDay(e, m) ==
  {k \in 1..Len(payslips) : payslips[k].employeeId = e /\ payslips[k].month = m}

\* the payslips of an employee whose month lies in the calendar month of m
SlipsOf(e, m) ==
  {k \in 1..Len(payslips) : payslips[k].employeeId = e /\ InMonth(payslips[k].month, m)}

\* await prisma.payslip.findFirst({ where: { employeeId, month: { gte, lt } } })
FindPayslip(c) ==
  /\ call[c].pc = "findPayslip"
  /\ LET found == SlipsOf(call[c].payment.employeeId, call[c].month) IN
     \E ok \in BOOLEAN :
       IF ~ok THEN call' = [call EXCEPT ![c] = Fails(@, "payslip", "DbError")]
       ELSE IF found = {} THEN call' = [call EXCEPT ![c].pc = "writePayslip", ![c].slip = 0]
       ELSE \E k \in found : call' = [call EXCEPT ![c].pc = "writePayslip", ![c].slip = k]
  /\ UNCHANGED <<now, dbVars, txns, bulk, ncalls, webVars>>

\* prisma's update leaves a field alone when the new value is undefined
SetRef(old, new) == IF new = NoRef THEN old ELSE new

NewPayslip(cr) ==
  [employeeId |-> cr.payment.employeeId, month |-> MonthStart(cr.month),
   netPay |-> cr.payment.amount, paid |-> TRUE, payoutRef |-> cr.payoutRef]

\* if (payslip) await prisma.payslip.update(...)
\* else { employeeDetails = await findUnique(...); if (employeeDetails) await create(...) }
WritePayslip(c) ==
  /\ call[c].pc = "writePayslip"
  /\ \E ok \in BOOLEAN :
       LET cr == call[c] IN
       IF ~ok THEN
         /\ call' = [call EXCEPT ![c] = Fails(@, "payslip", "DbError")]
         /\ UNCHANGED payslips
       ELSE IF cr.slip # 0 THEN
         /\ payslips' = [payslips EXCEPT ![cr.slip] =
                           [@ EXCEPT !.paid = TRUE, !.payoutRef = SetRef(@, cr.payoutRef)]]
         /\ call' = [call EXCEPT ![c].pc = "createPayout", ![c].slipWrites = @ + 1]
       ELSE IF FindEmployeeRow(cr.payment.employeeId).id # None THEN
         /\ payslips' = Append(payslips, NewPayslip(cr))
         /\ call' = [call EXCEPT ![c].pc = "createPayout", ![c].slipWrites = @ + 1]
       ELSE
         /\ call' = [call EXCEPT ![c].pc = "createPayout"]
         /\ UNCHANGED payslips
  /\ UNCHANGED <<now, payouts, txns, bulk, ncalls, webVars>>

PayoutRefs == {payouts[k].ref : k \in 1..Len(payouts)}

\* employeePayment.paymentMethod === 'bank'
\*   ? (employeePayment.bankId || employee.bank?.name) : 'M-Pesa'
PayoutBank(cr) ==
  IF cr.payment.paymentMethod = "bank"
    THEN (IF cr.payment.bankId # None THEN cr.payment.bankId ELSE cr.employee.bank.name)
    ELSE "M-Pesa"

\* `PAYOUT_${Date.now()}`: a ref no earlier row carries (two rows made in the
\* same millisecond collide on the unique ref, which is a failed create)
FallbackRef == <<"PAYOUT", Len(payouts) + 1>>

\* NewPayout with the row created as already settled
NewPayoutSettled(cr) ==
  [ref |-> OrRef(cr.payoutRef, FallbackRef), employeeId |-> cr.payment.employeeId,
   amount |-> cr.payment.amount, status |-> "SUCCESS", type |-> "SALARY",
   bank |-> PayoutBank(cr), transactionId |-> cr.transactionId, createdAt |-> now]

NewPayout(cr) ==
  [ref |-> OrRef(cr.payoutRef, FallbackRef), employeeId |-> cr.payment.employeeId,
   amount |-> cr.payment.amount, status |-> "PROCESSING", type |-> "SALARY",
   bank |-> PayoutBank(cr), transactionId |-> cr.transactionId, createdAt |-> now]

\* await prisma.payout.create(...); payout.ref is unique
CreatePayout(c) ==
  /\ call[c].pc = "createPayout"
  /\ \E ok \in BOOLEAN :
       IF ~ok \/ NewPayout(call[c]).ref \in PayoutRefs THEN
         /\ call' = [call EXCEPT ![c] = Fails(@, "payout", "DbError")]
         /\ UNCHANGED payouts
       ELSE
         /\ payouts' = Append(payouts, NewPayout(call[c]))
         /\ call' = [call EXCEPT ![c].pc = "notify", ![c].payoutWrites = @ + 1,
                                  ![c].payoutRow = Len(payouts) + 1]
  /\ UNCHANGED <<now, payslips, txns, bulk, ncalls, webVars>>

Notification(type, to) == [type |-> type, recipientId |-> to]

\* try { await prisma.notification.create(...) } catch { log }; return { success: true, ... }
Notify(c) ==
  /\ call[c].pc = "notify"
  /\ \E ok \in BOOLEAN :
       LET n == Notification("PAYMENT", call[c].employee.userId)
           res == [success |-> TRUE, transactionId |-> call[c].transactionId,
                   payoutRef |-> call[c].payoutRef, error |-> NoError]
       IN
       /\ call' = [call EXCEPT ![c] =
            [@ EXCEPT !.pc = "returned", !.result = res,
                      !.faults = IF ok THEN @ ELSE @ \cup {"notify"},
                      !.notifWrites = IF ok THEN Append(@, n) ELSE @]]
  /\ UNCHANGED <<now, dbVars, txns, bulk, ncalls, webVars>>

\* Catch without the inner try: a failing admin notification propagates
CatchUnguarded(c) ==
  /\ call[c].pc = "catch"
  /\ \E ok \in BOOLEAN, adminUser \in BOOLEAN :
       LET n == Notification("ERROR", "admin")
           wrote == ok /\ adminUser
           res == [success |-> FALSE, transactionId |-> NoRef, payoutRef |-> NoRef,
                   error |-> call[c].error]
       IN
       call' = [call EXCEPT ![c] =
            [@ EXCEPT !.pc = IF ok THEN "returned" ELSE "thrown",
                      !.result = IF ok THEN res ELSE @,
                      !.faults = IF ok THEN @ ELSE @ \cup {"admin"},
                      !.notifWrites = IF wrote THEN Append(@, n) ELSE @]]
  /\ UNCHANGED <<now, dbVars, txns, bulk, ncalls, webVars>>

\* Catch that also tells the employee of the failure
CatchTellsEmployee(c) ==
  /\ call[c].pc = "catch"
  /\ \E ok \in BOOLEAN, adminUser \in BOOLEAN :
       LET n == Notification("ERROR", "admin")
           m == Notification("ERROR", FindEmployeeRow(call[c].payment.employeeId).userId)
           wrote == ok /\ adminUser
           res == [success |-> FALSE, transactionId |-> NoRef, payoutRef |-> NoRef,
                   error |-> call[c].error]
       IN
       call' = [call EXCEPT ![c] =
            [@ EXCEPT !.pc = "returned", !.result = res,
                      !.faults = IF ok THEN @ ELSE @ \cup {"admin"},
                      !.notifWrites = IF wrote THEN Append(Append(@, n), m) ELSE @]]
  /\ UNCHANGED <<now, dbVars, txns, bulk, ncalls, webVars>>

\* catch (error) { try { admin = findFirst(role ADMIN); if (admin) create(ERROR) } catch { log };
\*                 return { success: false, error: error.message } }
Catch(c) ==
  /\ call[c].pc = "catch"
  /\ \E ok \in BOOLEAN, adminUser \in BOOLEAN :
       LET n == Notification("ERROR", "admin")
           wrote == ok /\ adminUser
           res == [success |-> FALSE, transactionId |-> NoRef, payoutRef |-> NoRef,
                   error |-> call[c].error]
       IN
       /\ call' = [call EXCEPT ![c] =
            [@ EXCEPT !.pc = "returned", !.result = res,
                      !.faults = IF ok THEN @ ELSE @ \cup {"admin"},
                      !.notifWrites = IF wrote THEN Append(@, n) ELSE @]]
  /\ UNCHANGED <<now, payslips, payouts, txns, bulk, ncalls, webVars>>

\* one step of the processPayrollPayment invocation in slot c
CallStep(c) ==
  \/ FindEmployee(c)
  \/ BankTransferReturn(c)
  \/ MpesaReturn(c)
  \/ FindPayslip(c)
  \/ WritePayslip(c)
  \/ CreatePayout(c)
  \/ Notify(c)
  \/ Catch(c)

\* --------------------------------------------------- processBulkPayroll
\* the lists of at most MaxBulk payments
PaymentLists == UNION {[1..n -> RawPayments] : n \in 0..MaxBulk}

\* const validatedPayment = { ...employeePayment, amount: <number> }
Validated(raw) == [raw EXCEPT !.amount = ToAmount(@)]

IdleBulk == [active |-> FALSE, payments |-> <<>>, month |-> 0, i |-> 1, cur |-> 0, results |-> <<>>]

\* processBulkPayroll(employeesPayments, month, description) is entered
BulkStart(ps, m) ==
  /\ ~bulk.active
  /\ ncalls + Len(ps) <= MaxCalls
  /\ bulk' = [IdleBulk EXCEPT !.active = TRUE, !.payments = ps, !.month = m]
  /\ UNCHANGED <<now, dbVars, txns, call, ncalls, webVars>>

\* the loop body without the await
BulkNeverWaits == TRUE

\* the loop has no invocation outstanding
BulkMayCall == bulk.cur = 0

\* for (const employeePayment of employeesPayments) { ... processPayrollPayment(validatedPayment, ...)
BulkCall ==
  /\ bulk.active
  /\ BulkMayCall
  /\ bulk.i <= Len(bulk.payments)
  /\ call[bulk.i].pc = "idle"
  /\ call' = [call EXCEPT ![bulk.i] = NewCall(Validated(bulk.payments[bulk.i]), bulk.month)]
  /\ bulk' = [bulk EXCEPT !.cur = bulk.i, !.i = @ + 1]
  /\ ncalls' = ncalls + 1
  /\ UNCHANGED <<now, dbVars, txns, webVars>>

\* results.unshift(result)
Unshift(results, r) == <<r>> \o results

\* results.push(result)
Push(results, r) == Append(results, r)

\* const result = await processPayrollPayment(...); results.push(result) }
BulkAwait ==
  /\ bulk.active
  /\ bulk.cur # 0
  /\ call[bulk.cur].pc = "returned"
  /\ bulk' = [bulk EXCEPT !.results = Push(@, call[bulk.cur].result), !.cur = 0]
  /\ call' = [call EXCEPT ![bulk.cur] = IdleCall]
  /\ UNCHANGED <<now, dbVars, txns, ncalls, webVars>>

\* return results
BulkReturn ==
  /\ bulk.active
  /\ bulk.cur = 0
  /\ bulk.i > Len(bulk.payments)
  /\ bulk' = IdleBulk
  /\ UNCHANGED <<now, dbVars, txns, call, ncalls, webVars>>

\* ------------------------------------------------- verifyPayrollPayment
\* Where one verification goes wrong, if anywhere.
VerifyChoices == {"ok", "findFails", "providerThrows", "updateFails", "slipFails"}

NoVerify == [success |-> FALSE, status |-> None]

\* the row of table payout with this ref, 0 when there is none
PayoutAt(ps, ref) ==
  IF \E k \in 1..Len(ps) : ps[k].ref = ref
    THEN CHOOSE k \in 1..Len(ps) : ps[k].ref = ref ELSE 0

\* what the provider says of a transaction id: the state of the
\* transaction, "unknown" for an id it never issued
TxnState(tid) == IF tid = NoRef \/ tid[2] > Len(txns) THEN "unknown" ELSE txns[tid[2]].state

\* verification.Result.ResultCode === 0 ? 'SUCCESS' : 'FAILED'
MpesaStatus(tid) == IF TxnState(tid) = "success" THEN "SUCCESS" ELSE "FAILED"

\* BankStatus that leaves the provider's own word for an unclear status
BankStatusRaw(tid, choice) ==
  IF choice = "providerThrows" THEN "FAILED"
  ELSE IF TxnState(tid) = "success" THEN "SUCCESS"
  ELSE IF TxnState(tid) = "failed" THEN "FAILED"
  ELSE TxnState(tid)

\* BankStatus that lets a throw of verifyPayment pass as an unclear status
BankStatusThrowPending(tid, choice) ==
  IF choice = "providerThrows" THEN "PENDING"
  ELSE IF TxnState(tid) = "success" THEN "SUCCESS"
  ELSE IF TxnState(tid) = "failed" THEN "FAILED"
  ELSE "PENDING"

\* verificationData?.status: 'success' -> SUCCESS, 'failed' -> FAILED, else PENDING;
\* a throw of verifyPayment -> FAILED
BankStatus(tid, choice) ==
  IF choice = "providerThrows" THEN "FAILED"
  ELSE IF TxnState(tid) = "success" THEN "SUCCESS"
  ELSE IF TxnState(tid) = "failed" THEN "FAILED"
  ELSE "PENDING"

\* the first payslip carrying this payoutRef, 0 when there is none
SlipWithRef(sl, ref) ==
  IF \E k \in 1..Len(sl) : sl[k].payoutRef = ref
    THEN CHOOSE k \in 1..Len(sl) : sl[k].payoutRef = ref
           /\ \A j \in 1..Len(sl) : sl[j].payoutRef = ref => k <= j
    ELSE 0

\* verifyPayrollPayment(payoutRef) on the tables ps (payout) and sl (payslip):
\* the tables and the result it leaves
VerifyOn(ps, sl, ref, choice) ==
  LET k == PayoutAt(ps, ref)
      same == [payouts |-> ps, payslips |-> sl, result |-> NoVerify]
  IN
  IF choice = "findFails" \/ k = 0 THEN same
  ELSE IF ps[k].bank = "M-Pesa" /\ choice = "providerThrows" THEN same
  ELSE
    LET status == IF ps[k].bank = "M-Pesa" THEN MpesaStatus(ps[k].transactionId)
                  ELSE BankStatus(ps[k].transactionId, choice)
        ps2 == [ps EXCEPT ![k].status = status]
        j == SlipWithRef(sl, ref)
    IN
    IF choice = "updateFails" THEN same
    ELSE IF status = "SUCCESS" /\ choice = "slipFails"
      THEN [payouts |-> ps2, payslips |-> sl, result |-> NoVerify]
    ELSE [payouts |-> ps2,
          payslips |-> IF status = "SUCCESS" /\ j # 0 THEN [sl EXCEPT ![j].paid = TRUE] ELSE sl,
          result |-> [success |-> TRUE, status |-> status]]

\* the refs a caller may ask about: those of the payout table and one more
UnknownRef == <<"REF", 0>>

\* verifyPayrollPayment(ref), going as choice says
VerifyWith(ref, choice) ==
  /\ LET v == VerifyOn(payouts, payslips, ref, choice) IN
       /\ payouts' = v.payouts
       /\ payslips' = v.payslips
  /\ UNCHANGED <<now, txns, call, bulk, ncalls, webVars>>

Verify(ref) == \E choice \in VerifyChoices : VerifyWith(ref, choice)

\* a verification in which no call throws
VerifyOk(ref) == VerifyWith(ref, "ok")

\* ----------------------------------------------------- reconcilePayroll
\* Selected without the filter on type
SelectedAnyType(ps, m) ==
  {k \in 1..Len(ps) : InMonth(ps[k].createdAt, m) /\ ps[k].status = "PROCESSING"}

\* where: { type: 'SALARY', createdAt: { gte, lt }, status: 'PROCESSING' }
Selected(ps, m) ==
  {k \in 1..Len(ps) : ps[k].type = "SALARY" /\ InMonth(ps[k].createdAt, m)
                       /\ ps[k].status = "PROCESSING"}

RECURSIVE VerifyEach(_, _, _, _)
\* for (const payout of payouts) await verifyPayrollPayment(payout.ref),
\* over the rows found, in table order
VerifyEach(todo, snapshot, choices, db) ==
  IF todo = {} THEN db
  ELSE LET k == CHOOSE x \in todo : \A y \in todo : x <= y
           v == VerifyOn(db.payouts, db.payslips, snapshot[k].ref, choices[k])
       IN VerifyEach(todo \ {k}, snapshot, choices, [payouts |-> v.payouts, payslips |-> v.payslips])

\* reconcilePayroll(month) when findMany throws (findOk false: the error is
\* rethrown) or returns, and each verification goes as choices says
ReconcileWith(m, findOk, choices) ==
  /\ IF ~findOk THEN UNCHANGED <<payouts, payslips>>
     ELSE LET db == VerifyEach(Selected(payouts, m), payouts, choices,
                               [payouts |-> payouts, payslips |-> payslips])
          IN /\ payouts' = db.payouts
             /\ payslips' = db.payslips
  /\ UNCHANGED <<now, txns, call, bulk, ncalls, webVars>>

Reconcile(m) ==
  \E findOk \in BOOLEAN, choices \in [Selected(payouts, m) -> VerifyChoices] :
    ReconcileWith(m, findOk, choices)

\* a reconciliation in which no call throws
ReconcileOk(m) == ReconcileWith(m, TRUE, [k \in Selected(payouts, m) |-> "ok"])

\* ------------------------------------------------------- the environment
\* a provider settles a transaction: pending becomes success or failed, for good
Settle(t, outcome) ==
  /\ t \in 1..Len(txns)
  /\ txns[t].state = "pending"
  /\ txns' = [txns EXCEPT ![t].state = outcome]
  /\ UNCHANGED <<now, dbVars, call, bulk, ncalls, webVars>>

Tick ==
  /\ now < MaxNow
  /\ now' = now + 1
  /\ UNCHANGED <<dbVars, txns, call, bulk, ncalls, webVars>>

\* ------------------------------------------------------ specifications
InitWeb ==
  /\ banks = {}
  /\ activities = <<>>
  /\ web = <<>>

Init ==
  /\ now = 0
  /\ payslips = <<>>
  /\ payouts = <<>>
  /\ txns = <<>>
  /\ call = [c \in Slots |-> IdleCall]
  /\ bulk = IdleBulk
  /\ ncalls = 0
  /\ InitWeb

\* The payroll runs: processBulkPayroll invocations, one after another.
Next ==
  \/ \E ps \in PaymentLists, m \in PayMonths : BulkStart(ps, m)
  \/ BulkCall
  \/ \E c \in Slots : CallStep(c)
  \/ BulkAwait
  \/ BulkReturn

Spec == Init /\ [][Next]_vars

\* ---------------------------------------------- payments and reconciliation
\* no processPayrollPayment invocation is under way
Quiet == \A c \in Slots : call[c].pc = "idle"

\* a caller invokes processPayrollPayment(p, m, description) directly
Invoke(c, p, m) ==
  /\ call[c].pc = "idle"
  /\ ncalls < MaxCalls
  /\ call' = [call EXCEPT ![c] = NewCall(p, m)]
  /\ ncalls' = ncalls + 1
  /\ UNCHANGED <<now, dbVars, txns, bulk, webVars>>

\* the caller takes the result
Return(c) ==
  /\ call[c].pc = "returned"
  /\ call' = [call EXCEPT ![c] = IdleCall]
  /\ UNCHANGED <<now, dbVars, txns, bulk, ncalls, webVars>>

Payments == {Validated(raw) : raw \in RawPayments}

\* the payments that pass the checks ahead of the provider call
ProviderPayments ==
  {p \in Payments :
     Dispatch(NewCall(p, 0), FindEmployeeRow(p.employeeId)).pc \in {"bankTransfer", "mpesa"}}

\* The operations run one after another: a payment (of the current month), a
\* verification, a reconciliation, a settlement at a provider or a tick of the
\* clock begins when no payment is under way.
LifeNext ==
  \/ \E p \in ProviderPayments : Quiet /\ Invoke(1, p, now)
  \/ \E c \in Slots : CallStep(c)
  \/ \E c \in Slots : Return(c)
  \/ \E ref \in PayoutRefs \cup {UnknownRef} : Quiet /\ Verify(ref)
  \/ \E m \in Dates : Quiet /\ Reconcile(m)
  \/ \E t \in 1..MaxCalls, outcome \in {"success", "failed"} : Quiet /\ Settle(t, outcome)
  \/ Quiet /\ Tick

LifeSpec == Init /\ [][LifeNext]_vars

\* ------------------------------------------------ payments by amount
\* Payments whose other fields are in order and whose amount is a number or
\* a string that is positive, zero, negative or not a number.
AmountPayments ==
  { Pay("e1", Num(5), None, "ACC", None, "bank"),
    Pay("e1", Num(0), None, "ACC", None, "bank"),
    Pay("e1", Str(<<"-", "3">>), None, "ACC", None, "bank"),
    Pay("e1", Str(<<"x">>), None, "ACC", None, "bank"),
    Pay("e2", Num(0), None, None, "0712", "mpesa"),
    Pay("e2", Num(0 - 3), None, None, "0712", "mpesa"),
    Pay("e2", Str(<<>>), None, None, "0712", "mpesa") }

AmountLists == UNION {[1..n -> AmountPayments] : n \in 0..MaxBulk}

\* processBulkPayroll over these payments
AmountNext ==
  \/ \E ps \in AmountLists, m \in PayMonths : BulkStart(ps, m)
  \/ BulkCall
  \/ \E c \in Slots : CallStep(c)
  \/ BulkAwait
  \/ BulkReturn

AmountSpec == Init /\ [][AmountNext]_vars

\* ------------------------------------------------- concurrent payments
\* Two callers invoke processPayrollPayment at any time, each in its own
\* slot: the awaits of the two invocations interleave.
RaceNext ==
  \/ \E c \in Slots, p \in ProviderPayments, m \in PayMonths : Invoke(c, p, m)
  \/ \E c \in Slots : CallStep(c)
  \/ \E c \in Slots : Return(c)

RaceSpec == Init /\ [][RaceNext]_vars

\* ------------------------------------------- a ledger with other payouts
\* Table payout has a column type, of which this code writes and selects
\* only 'SALARY'. A row of another type, made elsewhere, stands in the table
\* from the start: a payout by bank, in progress, of the first month.
OtherPayout ==
  [ref |-> <<"OTHER", 1>>, employeeId |-> "e2", amount |-> 5, status |-> "PROCESSING",
   type |-> "OTHER", bank |-> "KCB", transactionId |-> NoRef, createdAt |-> 0]

LedgerInit ==
  /\ now = 0
  /\ payslips = <<>>
  /\ payouts = <<OtherPayout>>
  /\ txns = <<>>
  /\ call = [c \in Slots |-> IdleCall]
  /\ bulk = IdleBulk
  /\ ncalls = 0
  /\ InitWeb

LedgerSpec == LedgerInit /\ [][LifeNext]_vars

\* ------------------------------------------------------ the web routes
\* What getServerSession returns: null, a session without user, or a session
\* whose user has an id and a role, either of which may be missing.
Session(has, user, id, role) == [present |-> has, user |-> user, id |-> id, role |-> role]
Sessions ==
  { Session(FALSE, FALSE, None, None),
    Session(TRUE, FALSE, None, None),
    Session(TRUE, TRUE, None, "ADMIN"),
    Session(TRUE, TRUE, "u1", None),
    Session(TRUE, TRUE, "u1", "ADMIN"),
    Session(TRUE, TRUE, "u7", "FINANCE"),
    Session(TRUE, TRUE, "u1", "HR"),
    Session(TRUE, TRUE, "u7", "EMPLOYEE") }

\* the gate without the check of the user id
BankGateNoId(ss) ==
  ~ss.present \/ ~ss.user \/ (ss.role # "ADMIN" /\ ss.role # "FINANCE")

\* !session || !session.user || !session.user.id ||
\*   (session.user.role !== 'ADMIN' && session.user.role !== 'FINANCE')
BankGateRejects(ss) ==
  ~ss.present \/ ~ss.user \/ ss.id = None \/ (ss.role # "ADMIN" /\ ss.role # "FINANCE")

RECURSIVE TrimLeft(_)
TrimLeft(str) == IF str # <<>> /\ Head(str) = " " THEN TrimLeft(Tail(str)) ELSE str
RECURSIVE TrimRight(_)
TrimRight(str) ==
  IF str # <<>> /\ str[Len(str)] = " " THEN TrimRight(SubSeq(str, 1, Len(str) - 1)) ELSE str
\* String.prototype.trim
Trim(str) == TrimRight(TrimLeft(str))

\* the names and codes of a request body; the empty string is falsy
BankNames == {<<>>, <<"K">>, <<" ", "K">>}
BankCodes == {<<>>, <<"1">>, <<"1", " ">>, <<"2">>}

BankCodesOf(bs) == {b.code : b \in bs}

\* prisma.employee.findFirst({ where: { userId } }): the employee id, None when there is none
EmployeeOfUser(uid) ==
  IF \E e \in DOMAIN EmployeeTable : EmployeeTable[e].userId = uid
    THEN CHOOSE e \in DOMAIN EmployeeTable : EmployeeTable[e].userId = uid ELSE None

Served(route, ss, status, reads, writes) ==
  [route |-> route, session |-> ss, status |-> status, reads |-> reads, writes |-> writes]

\* Where a request goes wrong, if anywhere: the call that throws.
BankFailures == {"none", "json", "findUnique", "create", "findFirst", "activity"}

\* POST /api/finance/banks with this session and body; bank.code is unique.
\* reads and writes count the database calls the handler makes.
PostBank(ss, name, code, failAt) ==
  /\ Len(web) < MaxReq
  /\ LET done(status, reads, writes) ==
           web' = Append(web, Served("POST /api/finance/banks", ss, status, reads, writes))
         row == [name |-> Trim(name), code |-> Trim(code)]
         emp == EmployeeOfUser(ss.id)
     IN
     IF BankGateRejects(ss) THEN
       /\ done("401", 0, 0) /\ UNCHANGED <<banks, activities>>
     ELSE IF failAt = "json" THEN
       /\ done("500", 0, 0) /\ UNCHANGED <<banks, activities>>
     ELSE IF name = <<>> \/ code = <<>> THEN
       /\ done("400", 0, 0) /\ UNCHANGED <<banks, activities>>
     ELSE IF failAt = "findUnique" THEN
       /\ done("500", 1, 0) /\ UNCHANGED <<banks, activities>>
     ELSE IF code \in BankCodesOf(banks) THEN
       /\ done("400", 1, 0) /\ UNCHANGED <<banks, activities>>
     ELSE IF failAt = "create" \/ row.code \in BankCodesOf(banks) THEN
       /\ done("500", 1, 1) /\ UNCHANGED <<banks, activities>>
     ELSE
       /\ banks' = banks \cup {row}
       /\ IF failAt = "findFirst" THEN done("500", 2, 1) /\ UNCHANGED activities
          ELSE IF emp = None THEN done("201", 2, 1) /\ UNCHANGED activities
          ELSE IF failAt = "activity" THEN done("500", 2, 2) /\ UNCHANGED activities
          ELSE /\ done("201", 2, 2)
               /\ activities' = Append(activities, [employeeId |-> emp, bankCode |-> row.code])
  /\ UNCHANGED <<now, dbVars, txns, call, bulk, ncalls>>

\* The server-rendered finance pages and the number of queries each makes.
Pages == {"FinanceDashboard", "FinancePayments", "TaxSummaryReport"}
PageQueries(page) ==
  IF page = "FinanceDashboard" THEN 2 ELSE IF page = "FinancePayments" THEN 1 ELSE 4
MaxQueries == PageQueries("TaxSummaryReport")

\* !session || !session.user || (session.user.role !== 'FINANCE' &&
\*   session.user.role !== 'ADMIN' && session.user.role !== 'HR')
PageGateRejects(ss) ==
  ~ss.present \/ ~ss.user \/ (ss.role # "FINANCE" /\ ss.role # "ADMIN" /\ ss.role # "HR")

\* whether the page's module imports redirect from 'next/navigation'
ImportsRedirect(page) == page # "FinanceDashboard"

\* redirect('/auth/login'): next/navigation's redirect ends the render with a
\* redirection; an identifier that is not bound throws a ReferenceError
RedirectToLogin(page) == IF ImportsRedirect(page) THEN "redirect:/auth/login" ELSE "ReferenceError"

\* a finance page is rendered for this session; the failAt-th query throws,
\* none when failAt is 0
RenderPage(page, ss, failAt) ==
  /\ Len(web) < MaxReq
  /\ failAt \in 0..PageQueries(page)
  /\ web' = Append(web,
       IF PageGateRejects(ss) THEN Served(page, ss, RedirectToLogin(page), 0, 0)
       ELSE IF failAt # 0 THEN Served(page, ss, "error", failAt, 0)
       ELSE Served(page, ss, "rendered", PageQueries(page), 0))
  /\ UNCHANGED <<now, dbVars, txns, call, bulk, ncalls, banks, activities>>

WebNext ==
  \/ \E ss \in Sessions, name \in BankNames, code \in BankCodes, failAt \in BankFailures :
       PostBank(ss, name, code, failAt)
  \/ \E page \in Pages, ss \in Sessions, failAt \in 0..MaxQueries : RenderPage(page, ss, failAt)

WebSpec == Init /\ [][WebNext]_vars

\* A reconciliation without failure recurs for every month, the providers
\* settle what they hold, and an invocation under way runs to its return.
LifeFairness ==
  /\ \A m \in Dates : WF_vars(Quiet /\ ReconcileOk(m))
  /\ \A t \in 1..MaxCalls : WF_vars(\E outcome \in {"success", "failed"} : Quiet /\ Settle(t, outcome))
  /\ WF_vars(\E c \in Slots : CallStep(c) \/ Return(c))

\* One payment, and verifications and reconciliations without end, in which
\* the database and the providers always answer.
FairLifeNext ==
  \/ \E p \in ProviderPayments : Quiet /\ ncalls = 0 /\ Invoke(1, p, now)
  \/ \E c \in Slots : CallStep(c)
  \/ \E c \in Slots : Return(c)
  \/ \E ref \in PayoutRefs \cup {UnknownRef} : Quiet /\ VerifyOk(ref)
  \/ \E m \in Dates : Quiet /\ ReconcileOk(m)
  \/ \E t \in 1..MaxCalls, outcome \in {"success", "failed"} : Quiet /\ Settle(t, outcome)
  \/ Quiet /\ Tick

FairLifeSpec == Init /\ [][FairLifeNext]_vars /\ LifeFairness

\* ================================================================ claims
PayoutIds == 1..Len(payouts)
Returned(c) == call[c].pc = "returned"

\* C1, as stated: every payout row's status is PROCESSING, SUCCESS or FAILED.
C1_ThreeStatuses ==
  \A k \in PayoutIds : payouts[k].status \in {"PROCESSING", "SUCCESS", "FAILED"}

\* C1, amended: every payout row's status is PROCESSING, SUCCESS, FAILED or
\* PENDING, whatever payments, verifications and reconciliations have run.
C1_FourStatuses ==
  \A k \in PayoutIds : payouts[k].status \in {"PROCESSING", "SUCCESS", "FAILED", "PENDING"}

\* a verification has left a bank payout PENDING
C1_Witness ==
  \E k \in PayoutIds : payouts[k].status = "PENDING" /\ payouts[k].bank # "M-Pesa"

\* C2: an invocation of processPayrollPayment makes at most one provider call,
\* the bank transfer for 'bank' and the mobile-money payment for 'mpesa'; for
\* any other method it makes none and returns success=false.
C2_OneProviderCall ==
  \A c \in Slots :
    LET cr == call[c]
        method == cr.payment.paymentMethod
    IN
    /\ cr.bankCalls + cr.mpesaCalls <= 1
    /\ method = "bank" => cr.mpesaCalls = 0
    /\ method = "mpesa" => cr.bankCalls = 0
    /\ cr.pc = "bankTransfer" => cr.bankCalls = 1
    /\ cr.pc = "mpesa" => cr.mpesaCalls = 1
    /\ cr.txn # 0 => txns[cr.txn].kind = method
    /\ method \notin {"bank", "mpesa"} =>
         /\ cr.bankCalls = 0 /\ cr.mpesaCalls = 0 /\ cr.txn = 0
         /\ cr.pc \notin {"bankTransfer", "mpesa", "findPayslip", "writePayslip", "createPayout", "notify"}
         /\ Returned(c) => ~cr.result.success

\* an invocation with an invalid method has returned, and so has, in the
\* same run, one that paid by mobile money
C2_Witness ==
  \E c \in Slots :
    /\ Returned(c) /\ call[c].payment.paymentMethod = "cash" /\ ~call[c].result.success
    /\ Len(bulk.results) = 1 /\ bulk.results[1].success /\ Len(txns) = 1 /\ txns[1].kind = "mpesa"

\* the awaited calls whose failure C3 speaks of: the employee lookup, the
\* provider call, a write (or read) of payslip, payout or notification
C3_Sites == {"lookup", "provider", "payslip", "payout", "notify"}

\* C3, as stated: after any failure of the employee lookup, of a provider call
\* or of a database write the result is success=false with an error message.
C3_AnyFailureFails ==
  \A c \in Slots :
    /\ call[c].pc # "thrown"
    /\ Returned(c) /\ call[c].faults \cap C3_Sites # {} =>
         ~call[c].result.success /\ call[c].result.error # NoError

\* C3, amended: processPayrollPayment never throws; after a failure of the
\* employee lookup, of a provider call or of a payslip or payout query the
\* result is success=false with the error's message, also when the admin
\* notification fails; a failure of the employee's notification alone is
\* swallowed and the result is success=true.
C3_NeverThrows ==
  \A c \in Slots :
    LET cr == call[c] IN
    /\ cr.pc # "thrown"
    /\ Returned(c) =>
         /\ cr.faults \cap {"lookup", "provider", "payslip", "payout"} # {} =>
              ~cr.result.success /\ cr.result.error # NoError /\ cr.result.error = cr.error
         /\ cr.error # NoError => ~cr.result.success /\ cr.result.error = cr.error
         /\ cr.faults \subseteq {"notify"} /\ cr.error = NoError => cr.result.success

\* a provider call threw, the admin notification failed too, and the
\* invocation returned success=false
C3_Witness ==
  \E c \in Slots :
    /\ Returned(c) /\ call[c].faults = {"provider", "admin"}
    /\ ~call[c].result.success /\ call[c].result.error # NoError

\* C4: when the provider call of an invocation has returned (not thrown) and
\* the invocation returns, a payout row with its employee, amount and
\* transaction id exists.
C4_PayoutRecorded ==
  \A c \in Slots :
    Returned(c) /\ call[c].provided =>
      \E k \in PayoutIds :
        /\ payouts[k].employeeId = call[c].payment.employeeId
        /\ payouts[k].amount = call[c].payment.amount
        /\ payouts[k].transactionId = call[c].transactionId

\* the provider's final word on the transaction of payout k is `outcome`
SettledAs(k, outcome) ==
  /\ k \in PayoutIds
  /\ payouts[k].type = "SALARY"
  /\ TxnState(payouts[k].transactionId) = outcome

StatusIs(k, status) == k \in PayoutIds /\ payouts[k].status = status

\* C5: with reconcilePayroll run again and again for every month, a SALARY
\* payout whose transaction the provider has settled as success (failed)
\* eventually has status SUCCESS (FAILED).
C5_EventuallyFinal ==
  \A k \in 1..MaxCalls :
    /\ SettledAs(k, "success") ~> StatusIs(k, "SUCCESS")
    /\ SettledAs(k, "failed") ~> StatusIs(k, "FAILED")

\* C6: an invocation that fails before calling a provider writes no payslip
\* and no payout; it writes at most one notification, of type ERROR, to the
\* admin user.
C6_OnlyAdminNotification ==
  \A c \in Slots :
    LET cr == call[c] IN
    Returned(c) /\ cr.bankCalls = 0 /\ cr.mpesaCalls = 0 =>
      /\ ~cr.result.success
      /\ cr.slipWrites = 0
      /\ cr.payoutWrites = 0
      /\ Len(cr.notifWrites) <= 1
      /\ \A n \in 1..Len(cr.notifWrites) : cr.notifWrites[n] = Notification("ERROR", "admin")

\* a bank payment of amount 0 has returned, having written the admin
\* notification
C6_Witness ==
  \E c \in Slots :
    /\ Returned(c) /\ call[c].bankCalls = 0 /\ call[c].error[1] = "InvalidAmount"
    /\ Len(call[c].notifWrites) = 1

\* result r is the result of payment raw: a failure names its employee, a
\* success carries a transaction of its method and amount
ResultOf(r, raw) ==
  IF r.success
    THEN r.transactionId # NoRef =>
           /\ txns[r.transactionId[2]].amount = ToAmount(raw.amount)
           /\ txns[r.transactionId[2]].kind = raw.paymentMethod
    ELSE r.error[2] = raw.employeeId

\* processBulkPayroll is about to return
BulkAtReturn == bulk.active /\ bulk.cur = 0 /\ bulk.i > Len(bulk.payments)

\* C7: processBulkPayroll returns one result per payment, in the order of the
\* payments, failed payments included.
C7_OneResultEach ==
  /\ Len(bulk.results) <= Len(bulk.payments)
  /\ \A k \in 1..Len(bulk.results) : ResultOf(bulk.results[k], bulk.payments[k])
  /\ BulkAtReturn => Len(bulk.results) = Len(bulk.payments)

\* a run of two payments is about to return; the first failed, the second
\* succeeded
C7_Witness ==
  /\ BulkAtReturn
  /\ Len(bulk.results) = 2
  /\ ~bulk.results[1].success
  /\ bulk.results[2].success /\ bulk.results[2].transactionId # NoRef

InFlight == {c \in Slots : call[c].pc \in {"bankTransfer", "mpesa"}}
UnderWay == {c \in Slots : call[c].pc # "idle"}

\* C8: processBulkPayroll has at most one processPayrollPayment invocation
\* under way, hence at most one provider call in flight; the invocation for
\* payment i+1 begins after the result of payment i is in.
C8_OneAtATime ==
  /\ Cardinality(InFlight) <= 1
  /\ Cardinality(UnderWay) <= 1
  /\ \A c \in UnderWay : Len(bulk.results) = c - 1

\* the provider call of the second payment is in flight, the first payment
\* having returned
C8_Witness ==
  /\ InFlight = {2}
  /\ Len(bulk.results) = 1

BankPosts == {n \in 1..Len(web) : web[n].route = "POST /api/finance/banks"}

\* the session has a user id and the role ADMIN or FINANCE
C9_Allowed(ss) == ss.present /\ ss.user /\ ss.id # None /\ ss.role \in {"ADMIN", "FINANCE"}

\* C9: POST /api/finance/banks answers 401 without a database call unless the
\* session has a user id and role ADMIN or FINANCE; a bank row exists only
\* after a request of such a session.
C9_BankGate ==
  /\ \A n \in BankPosts :
       ~C9_Allowed(web[n].session) =>
         web[n].status = "401" /\ web[n].reads = 0 /\ web[n].writes = 0
  /\ banks # {} => \E n \in BankPosts : C9_Allowed(web[n].session) /\ web[n].writes >= 1
  /\ Len(activities) > 0 => banks # {}

\* a session of role HR with a user id was answered 401, and a FINANCE
\* session created a bank
C9_Witness ==
  /\ \E n \in BankPosts : web[n].session.role = "HR" /\ web[n].status = "401"
  /\ \E n \in BankPosts : web[n].session.role = "FINANCE" /\ web[n].status = "201"
  /\ banks # {}

PageViews == {n \in 1..Len(web) : web[n].route \in Pages}

\* the session has role FINANCE, ADMIN or HR
C10_Allowed(ss) == ss.present /\ ss.user /\ ss.role \in {"FINANCE", "ADMIN", "HR"}

\* C10: the finance dashboard, payment history and tax summary pages query
\* the database only for a session of role FINANCE, ADMIN or HR; any other
\* request is redirected to /auth/login without a query.
C10_PageGate ==
  \A n \in PageViews :
    /\ web[n].reads > 0 => C10_Allowed(web[n].session)
    /\ ~C10_Allowed(web[n].session) =>
         web[n].status = "redirect:/auth/login" /\ web[n].reads = 0


\* ------------------------------------------------------------------ C11
PayslipIds == 1..Len(payslips)

\* C11: in every reachable state, a payslip with paid = true and a payoutRef
\* that is not null corresponds to a payout whose status is SUCCESS.
C11_PaidIsSuccess ==
  \A j \in PayslipIds :
    payslips[j].paid /\ payslips[j].payoutRef # NoRef =>
      \E k \in PayoutIds : /\ payouts[k].ref = payslips[j].payoutRef
                           /\ payouts[k].status = "SUCCESS"


\* ------------------------------------------------------------------ C12
\* the row of table payout that invocation c created is as the claim says
CreatedRowOf(c) ==
  /\ call[c].payoutRow \in PayoutIds
  /\ LET row == payouts[call[c].payoutRow] IN
       /\ row.status = "PROCESSING"
       /\ row.type = "SALARY"
       /\ row.employeeId = call[c].payment.employeeId
       /\ row.amount = call[c].payment.amount

\* C12: processPayrollPayment returns success = true if and only if the call
\* created exactly one payout row, and that row has status PROCESSING, type
\* SALARY and the payment's employeeId and amount.
C12_SuccessIffPayout ==
  \A c \in Slots :
    Returned(c) =>
      /\ call[c].payoutWrites <= 1
      /\ call[c].result.success <=> call[c].payoutWrites = 1
      /\ call[c].payoutWrites = 1 => CreatedRowOf(c)

C12_Witness ==
  \E c \in Slots : Returned(c) /\ call[c].result.success /\ call[c].payoutWrites = 1


\* ------------------------------------------------------------------ C13
\* C13: after processPayrollPayment returns success = true, the payoutRef of
\* the result, the payoutRef on the employee's payslip of that month and the
\* ref of the payout row the call created are all equal, so that
\* verifyPayrollPayment on that ref finds both the payout and the payslip.
C13_OneRef ==
  \A c \in Slots :
    Returned(c) /\ call[c].result.success =>
      LET ref == call[c].result.payoutRef IN
      /\ call[c].payoutRow \in PayoutIds
      /\ payouts[call[c].payoutRow].ref = ref
      /\ \A j \in SlipsOf(call[c].payment.employeeId, call[c].month) :
           payslips[j].payoutRef = ref
      /\ PayoutAt(payouts, ref) # 0
      /\ SlipWithRef(payslips, ref) # 0


\* ------------------------------------------------------------------ C14
\* C14: once a payout's status is SUCCESS, no later call of
\* verifyPayrollPayment or reconcilePayroll changes that status.
C14_SuccessStays ==
  [][\A k \in PayoutIds : payouts[k].status = "SUCCESS" => payouts'[k].status = "SUCCESS"]_vars


\* ------------------------------------------------------------------ C15
\* verifyPayrollPayment on the ref of row k while the provider's verification
\* call throws: the tables and the result it leaves
VerifyThrown(k) == VerifyOn(payouts, payslips, payouts[k].ref, "providerThrows")

\* C15 as claimed: for any payout, M-Pesa or bank, when the provider's
\* verification call fails with an exception, verifyPayrollPayment sets the
\* payout's status to FAILED.
C15_ThrowMeansFailed ==
  \A k \in PayoutIds : VerifyThrown(k).payouts[k].status = "FAILED"

\* C15 amended: when the provider's verification call throws,
\* verifyPayrollPayment sets the status of a bank payout to FAILED and
\* returns success = true; of an M-Pesa payout it changes nothing and
\* returns success = false.
C15_BankFailedMpesaKept ==
  \A k \in PayoutIds :
    IF payouts[k].bank = "M-Pesa"
      THEN /\ VerifyThrown(k).payouts = payouts
           /\ VerifyThrown(k).payslips = payslips
           /\ ~VerifyThrown(k).result.success
      ELSE /\ VerifyThrown(k).payouts = [payouts EXCEPT ![k].status = "FAILED"]
           /\ VerifyThrown(k).result.success

\* a bank payout FAILED although its transfer is not failed at the provider
\* (the verification threw), beside an M-Pesa payout still PROCESSING
C15_Witness ==
  /\ \E k \in PayoutIds : /\ payouts[k].bank # "M-Pesa"
                          /\ payouts[k].status = "FAILED"
                          /\ TxnState(payouts[k].transactionId) # "failed"
  /\ \E k \in PayoutIds : payouts[k].bank = "M-Pesa" /\ payouts[k].status = "PROCESSING"


\* ------------------------------------------------------------------ C16
\* the tables after reconcilePayroll(m) whose findMany returns and whose
\* verifications go as choices says
Reconciled(m, choices) ==
  VerifyEach(Selected(payouts, m), payouts, choices,
             [payouts |-> payouts, payslips |-> payslips])

\* row k has type SALARY, status PROCESSING and createdAt in the month of m
Eligible(k, m) ==
  /\ payouts[k].type = "SALARY"
  /\ payouts[k].status = "PROCESSING"
  /\ MonthStart(payouts[k].createdAt) = MonthStart(m)

\* C16: reconcilePayroll(month) changes only payouts that have type SALARY,
\* status PROCESSING and createdAt within that calendar month; every other
\* payout row is left unchanged.
C16_ReconcileFrame ==
  \A m \in Dates : \A choices \in [Selected(payouts, m) -> VerifyChoices] :
    /\ Len(Reconciled(m, choices).payouts) = Len(payouts)
    /\ \A k \in PayoutIds : ~Eligible(k, m) => Reconciled(m, choices).payouts[k] = payouts[k]

\* a reconciliation that changes a row, in a table that also holds a row
\* of another type in progress in that month and a SALARY row of another
\* status or month
C16_Witness ==
  \E m \in Dates :
    /\ \E choices \in [Selected(payouts, m) -> VerifyChoices] :
         Reconciled(m, choices).payouts # payouts
    /\ \E k \in PayoutIds : /\ payouts[k].type # "SALARY"
                            /\ payouts[k].status = "PROCESSING"
                            /\ MonthStart(payouts[k].createdAt) = MonthStart(m)
    /\ \E k \in PayoutIds : payouts[k].type = "SALARY" /\ ~Eligible(k, m)


\* ------------------------------------------------------------------ C17
\* C17: with processPayrollPayment calls executed one after another, at most
\* one payslip row exists per employee and calendar month: a second payment
\* for the same employee and month updates the existing payslip instead of
\* creating another one.
C17_OneSlipPerMonth ==
  /\ \A i, j \in PayslipIds :
       /\ payslips[i].employeeId = payslips[j].employeeId
       /\ MonthStart(payslips[i].month) = MonthStart(payslips[j].month)
       => i = j
  /\ \A c \in Slots :
       call[c].pc = "createPayout" /\ call[c].slip # 0 =>
         /\ payslips[call[c].slip].employeeId = call[c].payment.employeeId
         /\ payslips[call[c].slip].paid

\* a later payment has updated the payslip an earlier payment created
C17_Witness ==
  \E c \in Slots :
    /\ Returned(c) /\ call[c].result.success
    /\ call[c].slip # 0 /\ call[c].slipWrites = 1
    /\ Cardinality(SlipsOf(call[c].payment.employeeId, call[c].month)) = 1


\* ------------------------------------------------------------------ C18
\* no invocation is between its entry and its return
AllReturned == \A c \in Slots : call[c].pc \in {"idle", "returned"}

\* C18: under any interleaving of two concurrent processPayrollPayment calls
\* for the same employee and month, at most one payslip row exists for that
\* employee and month afterwards.
C18_OneSlipAfterRace ==
  AllReturned =>
    \A e \in DOMAIN EmployeeTable, m \in PayMonths : Cardinality(SlipsOf(e, m)) <= 1


\* ------------------------------------------------------------------ C19
\* zero, negative or not a number
NotPositive(a) == a = NaN \/ a <= 0

\* C19: processPayrollPayment never calls a provider with an amount that is
\* not a positive number: for every payment passed through processBulkPayroll
\* whose amount is zero, negative or not a number, the result is
\* success = false and no provider call is made.
C19_NoProviderForBadAmount ==
  \A c \in Slots :
    call[c].pc # "idle" /\ NotPositive(call[c].payment.amount) =>
      /\ call[c].bankCalls = 0
      /\ call[c].mpesaCalls = 0
      /\ Returned(c) => ~call[c].result.success

====
